---- MODULE Spec2Model ----
(***************************************************************************)
(* TELNET server: the State decoder (src/src/telnet/state.rs) and the      *)
(* Session that binds it to a TCP socket (src/src/telnet/session.rs), with *)
(* the demo application loop of src/src/bin/main.rs.                       *)
(*                                                                         *)
(* Two specifications share the module:                                    *)
(*   Spec      the decoder alone: State.write called byte by byte on a     *)
(*             fresh State, for both settings of the ANSI flag;            *)
(*   SessSpec  one Session: the listener thread, the application thread    *)
(*             and the peer, over the two mutexes (FairSessSpec adds the   *)
(*             fairness of the OS scheduler).                              *)
(***************************************************************************)
EXTENDS Integers, Sequences, FiniteSets, TLC

(***************************************************************************)
(* Protocol constants of state.rs                                          *)
(***************************************************************************)
ECHO == 1
ERASE_LINE == 248
BEL == 7
CHAR_BACK_SPACE == 8
CHAR_ESCAPE == 27
CHAR_DELETE == 127
CHAR_ERASE == 247
IAC == 255
IAC_SUBNEGOTIATION_START == 250
IAC_SUBNEGOTIATION_END == 240
IAC_WILL == 251
IAC_WONT == 252
IAC_DO == 253
IAC_DONT == 254
CHAR_SPACE == 32
CHAR_CR == 13
CHAR_LF == 10

ANSI_SEQUENCE_ERASE_LINE == <<CHAR_ESCAPE, 91, 50, 75, 13>>

\* 'A'..'H', 'J', 'K', 'S', 'T', 'f', 'm', 'i', 'n', 's', 'u', 'h', 'l'
CHARS_ESCAPE_SEQUENCE_END ==
  {65, 66, 67, 68, 69, 70, 71, 72, 74, 75, 83, 84, 102, 109, 105, 110, 115, 117, 104, 108}

CHARS_LINE_BREAK == <<CHAR_CR, CHAR_LF>>

Modes ==
  {"Idle", "Command", "CommandWill", "CommandWont", "CommandDo", "CommandDont",
   "SubNegotiation", "AnsiEscapeSequence"}

(***************************************************************************)
(* Bounds                                                                  *)
(***************************************************************************)
\* longest output_buffer the decoder specification explores
MaxBuf == 1
\* longest run of bytes followed from the byte that left Idle
MaxSeq == 3

\* the wire bytes the decoder specification feeds: every byte the decoder
\* gives a meaning to, and a CSI terminator ('m', which is also plain data
\* and an option that is not ECHO)
Bytes ==
  {ECHO, CHAR_BACK_SPACE, CHAR_ESCAPE, 109, CHAR_DELETE,
   IAC_SUBNEGOTIATION_END, CHAR_ERASE, ERASE_LINE, IAC_SUBNEGOTIATION_START,
   IAC_WILL, IAC_WONT, IAC_DO, IAC_DONT, IAC}

VARIABLES
  \* ---- struct State (state.rs:68-81)
  output_buffer, mode, is_echoing, handle_ansi_escape_sequences,
  \* ---- the last State.write call of the decoder specification
  pre,        \* the State before the call
  arg,        \* the slice it was given (<<>> before the first call)
  ret,        \* what it returned: [out: reply bytes (<<>> is None), err]
  tok,        \* the bytes consumed since the decoder last was Idle, the
              \* reply they produced and the State they started from
  \* ---- the State.read calls since the last State.write call
  drained,    \* the bytes they copied into their buffers, in order
  dst,        \* the length of the buffer given to the last one (0 before it)
  \* ---- struct Session (session.rs:15-20): who holds each Mutex
  state_lock, tcp_lock,
  \* ---- the TCP connection
  peer,       \* "open", "closed" (the peer sent FIN) or "reset"
  inbound,    \* bytes the peer sent that no read has taken yet
  sent,       \* how many bytes the peer has sent
  wire,       \* bytes written to the socket, each with the call that wrote it
  shorts,     \* how many write syscalls accepted less than they were given
  \* ---- the listener thread (Session::listen)
  lpc,        \* where it is
  tcp_data,   \* the slice of buf the last read filled
  telnet_data,\* what is left to write of the reply of State.write
  lret,       \* the error listen returned with ("none" while it runs)
  read_log,   \* the bytes read from the socket, in order
  fed_log,    \* the bytes given to State.write, in order
  reply_len,  \* the length of the reply to each non-empty chunk fed
  \* ---- the application thread (handle_connection)
  apc,        \* where it is
  line,       \* the String read_line_waiting collects
  answer,     \* what is left to write of the answer
  awrites     \* how many Session.write calls reached the socket

svars == <<output_buffer, mode, is_echoing, handle_ansi_escape_sequences>>
gvars == <<pre, arg, ret, tok, drained, dst>>
lockvars == <<state_lock, tcp_lock>>
netvars == <<peer, inbound, sent, wire, shorts>>
lvars == <<lpc, tcp_data, telnet_data, lret, read_log, fed_log, reply_len>>
avars == <<apc, line, answer, awrites>>
sessvars == <<lockvars, netvars, lvars, avars>>
vars == <<svars, gvars, sessvars>>

(***************************************************************************)
(* struct State as a record, and the results of the byte handlers          *)
(***************************************************************************)
StateOf(b, m, e, h) ==
  [output_buffer |-> b, mode |-> m, is_echoing |-> e,
   handle_ansi_escape_sequences |-> h]

new(handle) == StateOf(<<>>, "Idle", FALSE, handle)

\* Ok(None)
OkNone(st) == [st |-> st, out |-> <<>>, err |-> "none"]
\* Ok(Some(bytes))
OkSome(st, bytes) == [st |-> st, out |-> bytes, err |-> "none"]
\* Err(Error::new(kind, ..)): the State is left as it is
Err(st, kind) == [st |-> st, out |-> <<>>, err |-> kind]

Min(a, b) == IF a < b THEN a ELSE b
\* &seq[..n] and &seq[n..]
Take(seq, n) == SubSeq(seq, 1, n)
Drop(seq, n) == SubSeq(seq, n + 1, Len(seq))

\* Vec::pop taking the byte from the head of the Vec
Pop_head(buffer) == IF buffer = <<>> THEN buffer ELSE Tail(buffer)

\* Vec::pop
Pop(buffer) == IF buffer = <<>> THEN buffer ELSE SubSeq(buffer, 1, Len(buffer) - 1)

\* crate::iter::contains_sequence on a haystack and a needle
contains_sequence(hay, needle) ==
  \E i \in 1..(Len(hay) - Len(needle) + 1) :
    SubSeq(hay, i, i + Len(needle) - 1) = needle

\* erase_current_line stopping at a single LF instead of CR LF
RECURSIVE erase_current_line_to_lf(_)
erase_current_line_to_lf(buffer) ==
  IF Len(buffer) < 2 THEN <<>>
  ELSE IF buffer[Len(buffer)] = CHAR_LF
       THEN buffer
       ELSE erase_current_line_to_lf(Pop(buffer))

\* erase_current_line popping once more after it has found CR LF
RECURSIVE erase_current_line_pops_lf(_)
erase_current_line_pops_lf(buffer) ==
  IF Len(buffer) < 2 THEN <<>>
  ELSE IF contains_sequence(SubSeq(buffer, Len(buffer) - 1, Len(buffer)), CHARS_LINE_BREAK)
       THEN Pop(buffer)
       ELSE erase_current_line_pops_lf(Pop(buffer))

RECURSIVE erase_current_line(_)
erase_current_line(buffer) ==
  IF Len(buffer) < 2 THEN <<>>
  ELSE IF contains_sequence(SubSeq(buffer, Len(buffer) - 1, Len(buffer)), CHARS_LINE_BREAK)
       THEN buffer
       ELSE erase_current_line(Pop(buffer))

\* next_on_idle keeping the ESC byte whatever the ANSI flag says
next_on_idle_keeps_esc(st, next) ==
  CASE next = IAC -> OkNone([st EXCEPT !.mode = "Command"])
    [] next \in {CHAR_DELETE, CHAR_BACK_SPACE, CHAR_ERASE} ->
         LET s1 == [st EXCEPT !.output_buffer = Pop(@)]
         IN  IF st.is_echoing
             THEN OkSome(s1, <<CHAR_BACK_SPACE, CHAR_SPACE, CHAR_BACK_SPACE>>)
             ELSE OkNone(s1)
    [] next = ERASE_LINE ->
         LET s1 == [st EXCEPT !.output_buffer = erase_current_line(@)]
         IN  IF st.is_echoing THEN OkSome(s1, ANSI_SEQUENCE_ERASE_LINE) ELSE OkNone(s1)
    [] next = CHAR_ESCAPE ->
         LET s1 == [st EXCEPT !.mode = "AnsiEscapeSequence"]
         IN  IF st.is_echoing THEN OkSome(s1, <<next>>)
             ELSE OkNone([s1 EXCEPT !.output_buffer = Append(@, next)])
    [] OTHER ->
         LET s1 == [st EXCEPT !.output_buffer = Append(@, next)]
         IN  IF st.is_echoing THEN OkSome(s1, <<next>>) ELSE OkNone(s1)

next_on_idle(st, next) ==
  CASE next = IAC -> OkNone([st EXCEPT !.mode = "Command"])
    [] next \in {CHAR_DELETE, CHAR_BACK_SPACE, CHAR_ERASE} ->
         LET s1 == [st EXCEPT !.output_buffer = Pop(@)]
         IN  IF st.is_echoing
             THEN OkSome(s1, <<CHAR_BACK_SPACE, CHAR_SPACE, CHAR_BACK_SPACE>>)
             ELSE OkNone(s1)
    [] next = ERASE_LINE ->
         LET s1 == [st EXCEPT !.output_buffer = erase_current_line(@)]
         IN  IF st.is_echoing THEN OkSome(s1, ANSI_SEQUENCE_ERASE_LINE) ELSE OkNone(s1)
    [] next = CHAR_ESCAPE ->
         LET s1 == [st EXCEPT !.mode = "AnsiEscapeSequence"]
         IN  IF st.is_echoing THEN OkSome(s1, <<next>>)
             ELSE IF st.handle_ansi_escape_sequences
                  THEN OkNone([s1 EXCEPT !.output_buffer = Append(@, next)])
                  ELSE OkNone(s1)
    [] OTHER ->
         LET s1 == [st EXCEPT !.output_buffer = Append(@, next)]
         IN  IF st.is_echoing THEN OkSome(s1, <<next>>) ELSE OkNone(s1)

\* next_as_command taking IAC SE for a command without effect
next_as_command_accepts_se(st, next) ==
  CASE next = IAC_WILL -> OkNone([st EXCEPT !.mode = "CommandWill"])
    [] next = IAC_WONT -> OkNone([st EXCEPT !.mode = "CommandWont"])
    [] next = IAC_DO -> OkNone([st EXCEPT !.mode = "CommandDo"])
    [] next = IAC_DONT -> OkNone([st EXCEPT !.mode = "CommandDont"])
    [] next = IAC_SUBNEGOTIATION_START -> OkNone([st EXCEPT !.mode = "SubNegotiation"])
    [] next = IAC_SUBNEGOTIATION_END -> OkNone([st EXCEPT !.mode = "Idle"])
    [] OTHER -> Err(st, "InvalidInput")

next_as_command(st, next) ==
  CASE next = IAC_WILL -> OkNone([st EXCEPT !.mode = "CommandWill"])
    [] next = IAC_WONT -> OkNone([st EXCEPT !.mode = "CommandWont"])
    [] next = IAC_DO -> OkNone([st EXCEPT !.mode = "CommandDo"])
    [] next = IAC_DONT -> OkNone([st EXCEPT !.mode = "CommandDont"])
    [] next = IAC_SUBNEGOTIATION_START -> OkNone([st EXCEPT !.mode = "SubNegotiation"])
    [] OTHER -> Err(st, "InvalidInput")

next_as_will(st, next) == OkNone([st EXCEPT !.mode = "Idle"])

next_as_wont(st, next) == OkNone([st EXCEPT !.mode = "Idle"])

next_as_do(st, next) ==
  IF next = ECHO
  THEN OkSome([st EXCEPT !.mode = "Idle", !.is_echoing = TRUE], <<IAC, IAC_WILL, ECHO>>)
  ELSE OkSome([st EXCEPT !.mode = "Idle"], <<IAC, IAC_WONT, next>>)

\* next_as_dont answering DONT ECHO without switching the echo off
next_as_dont_keeps_echo(st, next) ==
  OkSome([st EXCEPT !.mode = "Idle"], <<IAC, IAC_WONT, next>>)

next_as_dont(st, next) ==
  IF next = ECHO
  THEN OkSome([st EXCEPT !.mode = "Idle", !.is_echoing = FALSE], <<IAC, IAC_WONT, next>>)
  ELSE OkSome([st EXCEPT !.mode = "Idle"], <<IAC, IAC_WONT, next>>)

\* next_as_sub_negotiation ending the sub-negotiation on IAC instead of SE
next_as_sub_negotiation_on_iac(st, next) ==
  IF next = IAC
  THEN OkNone([st EXCEPT !.mode = "Idle"])
  ELSE OkNone(st)

\* next_as_sub_negotiation keeping the bytes it should discard
next_as_sub_negotiation_keeps(st, next) ==
  IF next = IAC_SUBNEGOTIATION_END
  THEN OkNone([st EXCEPT !.mode = "Idle"])
  ELSE OkNone([st EXCEPT !.output_buffer = Append(@, next)])

next_as_sub_negotiation(st, next) ==
  IF next = IAC_SUBNEGOTIATION_END
  THEN OkNone([st EXCEPT !.mode = "Idle"])
  ELSE OkNone(st)

\* next_as_escape_sequence sending a BEL for every ignored byte
next_as_escape_sequence_bel_each(st, next) ==
  IF st.handle_ansi_escape_sequences
  THEN LET s1 == [st EXCEPT !.output_buffer = Append(@, next)]
           s2 == IF next \in CHARS_ESCAPE_SEQUENCE_END
                 THEN [s1 EXCEPT !.mode = "Idle"] ELSE s1
       IN  IF st.is_echoing THEN OkSome(s2, <<next>>) ELSE OkNone(s2)
  ELSE IF next \notin CHARS_ESCAPE_SEQUENCE_END
       THEN OkSome(st, <<BEL>>)
       ELSE OkSome([st EXCEPT !.mode = "Idle"], <<BEL>>)

next_as_escape_sequence(st, next) ==
  IF st.handle_ansi_escape_sequences
  THEN LET s1 == [st EXCEPT !.output_buffer = Append(@, next)]
           s2 == IF next \in CHARS_ESCAPE_SEQUENCE_END
                 THEN [s1 EXCEPT !.mode = "Idle"] ELSE s1
       IN  IF st.is_echoing THEN OkSome(s2, <<next>>) ELSE OkNone(s2)
  ELSE IF next \notin CHARS_ESCAPE_SEQUENCE_END
       THEN OkNone(st)
       ELSE OkSome([st EXCEPT !.mode = "Idle"], <<BEL>>)

\* the match on self.mode in the loop of State::write
Dispatch(st, next) ==
  CASE st.mode = "Idle" -> next_on_idle(st, next)
    [] st.mode = "Command" -> next_as_command(st, next)
    [] st.mode = "CommandWill" -> next_as_will(st, next)
    [] st.mode = "CommandWont" -> next_as_wont(st, next)
    [] st.mode = "CommandDo" -> next_as_do(st, next)
    [] st.mode = "CommandDont" -> next_as_dont(st, next)
    [] st.mode = "SubNegotiation" -> next_as_sub_negotiation(st, next)
    [] st.mode = "AnsiEscapeSequence" -> next_as_escape_sequence(st, next)

\* the loop of State::write keeping only the response to the last byte
RECURSIVE WriteLoop_last_response(_, _, _)
WriteLoop_last_response(st, response, buf) ==
  IF buf = <<>> THEN [st |-> st, out |-> response, err |-> "none"]
  ELSE LET result == Dispatch(st, Head(buf))
       IN  IF result.err # "none" THEN result
           ELSE WriteLoop_last_response(result.st, result.out, Tail(buf))

\* the loop of State::write handing out what it has collected when a byte
\* is refused, in place of the error
RECURSIVE WriteLoop_returns_collected(_, _, _)
WriteLoop_returns_collected(st, response, buf) ==
  IF buf = <<>> THEN [st |-> st, out |-> response, err |-> "none"]
  ELSE LET result == Dispatch(st, Head(buf))
       IN  IF result.err # "none" THEN [st |-> result.st, out |-> response, err |-> "none"]
           ELSE WriteLoop_returns_collected(result.st, response \o result.out, Tail(buf))

\* the loop of State::write from the State st with response collected so far
RECURSIVE WriteLoop(_, _, _)
WriteLoop(st, response, buf) ==
  IF buf = <<>> THEN [st |-> st, out |-> response, err |-> "none"]
  ELSE LET result == Dispatch(st, Head(buf))
       IN  IF result.err # "none" THEN result
           ELSE WriteLoop(result.st, response \o result.out, Tail(buf))

\* State::write: out = <<>> stands for Ok(None)
write(st, buf) == WriteLoop(st, <<>>, buf)

\* State::read draining the bytes it copied from the tail of the Vec
read_drains_tail(st, buflen) ==
  LET limit == Min(buflen, Len(st.output_buffer))
  IN  [st |-> [st EXCEPT !.output_buffer = Take(@, Len(@) - limit)],
       copied |-> Take(st.output_buffer, limit),
       n |-> limit]

\* impl Read for State: read into a buf of buflen bytes; copied is what
\* the call put into buf, n the count it returned
read(st, buflen) ==
  LET limit == Min(buflen, Len(st.output_buffer))
  IN  [st |-> [st EXCEPT !.output_buffer = Drop(@, limit)],
       copied |-> Take(st.output_buffer, limit),
       n |-> limit]

(***************************************************************************)
(* The decoder specification                                               *)
(***************************************************************************)
Self == StateOf(output_buffer, mode, is_echoing, handle_ansi_escape_sequences)

\* Session::new, the spawned listener and the application before its loop
SessionInit ==
  /\ state_lock = "none" /\ tcp_lock = "none"
  /\ peer = "open" /\ inbound = <<>> /\ sent = 0 /\ wire = <<>> /\ shorts = 0
  /\ lpc = "loop" /\ tcp_data = <<>> /\ telnet_data = <<>> /\ lret = "none"
  /\ read_log = <<>> /\ fed_log = <<>> /\ reply_len = <<>>
  /\ apc = "read" /\ line = <<>> /\ answer = <<>> /\ awrites = 0

NoTok == [bytes |-> <<>>, reply |-> <<>>, buf0 |-> <<>>, echo0 |-> FALSE]

Init ==
  /\ handle_ansi_escape_sequences \in BOOLEAN
  /\ output_buffer = <<>>
  /\ mode = "Idle"
  /\ is_echoing = FALSE
  /\ pre = new(handle_ansi_escape_sequences)
  /\ arg = <<>>
  /\ ret = [out |-> <<>>, err |-> "none"]
  /\ tok = NoTok
  /\ drained = <<>>
  /\ dst = 0
  /\ SessionInit

\* state.write(&[next]); after an Err the State is not written to again
\* (state.rs:154-156: the error ends the session)
WriteByte(next) ==
  LET r == write(Self, <<next>>)
  IN  /\ ret.err = "none"
      /\ Len(r.st.output_buffer) <= MaxBuf
      /\ mode # "Idle" => Len(tok.bytes) < MaxSeq
      /\ output_buffer' = r.st.output_buffer
      /\ mode' = r.st.mode
      /\ is_echoing' = r.st.is_echoing
      /\ UNCHANGED handle_ansi_escape_sequences
      /\ pre' = Self
      /\ arg' = <<next>>
      /\ ret' = [out |-> r.out, err |-> r.err]
      /\ tok' = IF mode = "Idle"
                THEN [bytes |-> <<next>>, reply |-> r.out,
                      buf0 |-> output_buffer, echo0 |-> is_echoing]
                ELSE [tok EXCEPT !.bytes = Append(@, next), !.reply = @ \o r.out]
      /\ UNCHANGED <<drained, dst, sessvars>>

Write == \E next \in Bytes : WriteByte(next)

Next == Write

Spec == Init /\ [][Next]_vars

(***************************************************************************)
(* The chunk specification: one State.write call on a whole slice, given   *)
(* to an idle State with some data buffered and echo on or off, and the    *)
(* State.read calls that drain what it left                                *)
(***************************************************************************)
\* longest output_buffer the State starts with
MaxPre == 2
\* longest slice of plain data given to State.write
MaxChunk == 3
\* longest buffer given to State.read
MaxDst == 2

\* plain data: CR, LF and 'm'
PayloadBytes == {CHAR_CR, CHAR_LF, 109}

SeqsUpTo(S, n) == UNION {[1..k -> S] : k \in 0..n}

\* slices with editing controls, CSI sequences (ESC [ m, ESC [ 3 1 m) and
\* sub-negotiations (open, closed at once, with IAC in the body, followed
\* by data)
ScenarioChunks ==
  {<<CHAR_BACK_SPACE>>, <<CHAR_DELETE>>, <<CHAR_ERASE>>,
   <<CHAR_BACK_SPACE, CHAR_DELETE>>, <<CHAR_ERASE, CHAR_ERASE, CHAR_BACK_SPACE>>,
   <<CHAR_ESCAPE, 91, 109>>, <<CHAR_ESCAPE, 91, 51, 49, 109>>,
   <<IAC, IAC_SUBNEGOTIATION_START, 24>>,
   <<IAC, IAC_SUBNEGOTIATION_START, IAC_SUBNEGOTIATION_END>>,
   <<IAC, IAC_SUBNEGOTIATION_START, IAC, IAC_SUBNEGOTIATION_END, CHAR_LF>>,
   <<IAC, IAC_SUBNEGOTIATION_START, 24, 0, 88, IAC, IAC_SUBNEGOTIATION_END, 65>>}

Chunks == SeqsUpTo(PayloadBytes, MaxChunk) \cup ScenarioChunks

ChunkInit ==
  /\ handle_ansi_escape_sequences \in BOOLEAN
  /\ output_buffer \in SeqsUpTo(PayloadBytes, MaxPre)
  /\ mode = "Idle"
  /\ is_echoing \in BOOLEAN
  /\ pre = new(handle_ansi_escape_sequences)
  /\ arg = <<>>
  /\ ret = [out |-> <<>>, err |-> "none"]
  /\ tok = NoTok
  /\ drained = <<>>
  /\ dst = 0
  /\ SessionInit

\* state.write(buf)
WriteChunk(buf) ==
  LET r == write(Self, buf)
  IN  /\ output_buffer' = r.st.output_buffer
      /\ mode' = r.st.mode
      /\ is_echoing' = r.st.is_echoing
      /\ UNCHANGED handle_ansi_escape_sequences
      /\ pre' = Self
      /\ arg' = buf
      /\ ret' = [out |-> r.out, err |-> r.err]
      /\ drained' = <<>>
      /\ dst' = 0
      /\ UNCHANGED <<tok, sessvars>>

\* the one State.write call a behaviour follows
ChunkWrite ==
  /\ arg = <<>>
  /\ \E buf \in Chunks : WriteChunk(buf)

\* state.read(&mut buf) with buf of buflen bytes
ChunkRead ==
  /\ arg # <<>>
  /\ \E buflen \in 0..MaxDst :
       LET r == read(Self, buflen)
       IN  /\ output_buffer' = r.st.output_buffer
           /\ drained' = drained \o r.copied
           /\ dst' = buflen
  /\ UNCHANGED <<mode, is_echoing, handle_ansi_escape_sequences, pre, arg, ret, tok,
                 sessvars>>

ChunkNext == ChunkWrite \/ ChunkRead

ChunkSpec == ChunkInit /\ [][ChunkNext]_vars

(***************************************************************************)
(* The erase-line specification: ERASE_LINE written, once or twice in a    *)
(* slice and call after call, to an idle State holding any buffer          *)
(***************************************************************************)
\* longest output_buffer the erase-line specification starts with
MaxLineBuf == 4

EraseLineChunks == {<<ERASE_LINE>>, <<ERASE_LINE, ERASE_LINE>>}

EraseInit ==
  /\ handle_ansi_escape_sequences = FALSE
  /\ output_buffer \in SeqsUpTo(PayloadBytes, MaxLineBuf)
  /\ mode = "Idle"
  /\ is_echoing \in BOOLEAN
  /\ pre = new(FALSE)
  /\ arg = <<>>
  /\ ret = [out |-> <<>>, err |-> "none"]
  /\ tok = NoTok
  /\ drained = <<>>
  /\ dst = 0
  /\ SessionInit

EraseLine == \E buf \in EraseLineChunks : WriteChunk(buf)

EraseNext == EraseLine

EraseSpec == EraseInit /\ [][EraseNext]_vars

(***************************************************************************)
(* The Session: socket, listener thread, application thread and peer       *)
(***************************************************************************)
\* bytes the peer sends in all
MaxWire == 4
\* write syscalls that accept only part of what they are given
MaxShort == 1

\* what the peer sends: LF (a line for the application, and an option) and
\* IAC DO (a reply; IAC LF and IAC IAC are decoder errors)
WireBytes == {CHAR_LF, IAC_DO, IAC}

\* let mut buf: [u8; 255]
BUF_LEN == 255

\* "You sent: "
YOU_SENT == <<89, 111, 117, 32, 115, 101, 110, 116, 58, 32>>

\* the UTF-8 bytes of the char (u8 as char) c
Utf8(c) == IF c < 128 THEN <<c>> ELSE <<192 + (c \div 64), 128 + (c % 64)>>

\* format!("You sent: {incoming}").as_bytes()
RECURSIVE as_bytes(_)
as_bytes(str) == IF str = <<>> THEN <<>> ELSE Utf8(Head(str)) \o as_bytes(Tail(str))

format_answer(incoming) == YOU_SENT \o as_bytes(incoming)

\* the bytes of one write call as they appear on the wire
Tagged(bytes, by, call) ==
  [i \in 1..Len(bytes) |-> [by |-> by, call |-> call, byte |-> bytes[i]]]

\* TcpStream::write on the non-blocking socket: how many bytes of buf it may
\* accept (all of them, or a single one when the send buffer is nearly
\* full), and the errors it may fail with
Accepts(buf) ==
  IF peer = "reset" THEN {}
  ELSE {Len(buf)} \cup (IF shorts < MaxShort /\ Len(buf) > 1 THEN {1} ELSE {})

WriteErrors == {"WouldBlock"} \cup (IF peer = "open" THEN {} ELSE {"BrokenPipe"})

SessInit ==
  /\ handle_ansi_escape_sequences = FALSE
  /\ output_buffer = <<>>
  /\ mode = "Idle"
  /\ is_echoing = FALSE
  /\ pre = new(FALSE)
  /\ arg = <<>>
  /\ ret = [out |-> <<>>, err |-> "none"]
  /\ tok = NoTok
  /\ drained = <<>>
  /\ dst = 0
  /\ SessionInit

\* ---- Session::listen ----------------------------------------------------

\* self.tcp_stream.try_lock(): Err(_) => continue
ListenTryLock ==
  /\ lpc = "loop"
  /\ IF tcp_lock = "none"
     THEN /\ tcp_lock' = "listener"
          /\ lpc' = "read"
     ELSE UNCHANGED <<tcp_lock, lpc>>
  /\ UNCHANGED <<svars, gvars, state_lock, netvars, tcp_data, telnet_data, lret,
                 read_log, fed_log, reply_len, avars>>

\* ListenRead holding the socket for the read syscall alone
ListenRead_unlocks ==
  /\ lpc = "read"
  /\ CASE peer = "reset" ->
            /\ lret' = "ConnectionReset"
            /\ lpc' = "returned"
            /\ tcp_lock' = "none"
            /\ UNCHANGED <<inbound, tcp_data, read_log>>
       [] peer # "reset" /\ inbound # <<>> ->
            LET n == Min(Len(inbound), BUF_LEN)
            IN  /\ tcp_data' = Take(inbound, n)
                /\ inbound' = Drop(inbound, n)
                /\ read_log' = read_log \o Take(inbound, n)
                /\ lpc' = "feed"
                /\ tcp_lock' = "none"
                /\ UNCHANGED lret
       [] peer = "open" /\ inbound = <<>> ->
            /\ tcp_lock' = "none"
            /\ lpc' = "loop"
            /\ UNCHANGED <<inbound, tcp_data, read_log, lret>>
       [] peer = "closed" /\ inbound = <<>> ->
            /\ tcp_data' = <<>>
            /\ lpc' = "feed"
            /\ tcp_lock' = "none"
            /\ UNCHANGED <<inbound, read_log, lret>>
  /\ UNCHANGED <<svars, gvars, state_lock, peer, sent, wire, shorts, telnet_data,
                 fed_log, reply_len, avars>>

\* tcp_stream.read(&mut buf)
ListenRead ==
  /\ lpc = "read"
  /\ CASE peer = "reset" ->
            \* Err(e), not WouldBlock: return Err(e)
            /\ lret' = "ConnectionReset"
            /\ lpc' = "returned"
            /\ tcp_lock' = "none"
            /\ UNCHANGED <<inbound, tcp_data, read_log>>
       [] peer # "reset" /\ inbound # <<>> ->
            \* Ok(read_bytes)
            LET n == Min(Len(inbound), BUF_LEN)
            IN  /\ tcp_data' = Take(inbound, n)
                /\ inbound' = Drop(inbound, n)
                /\ read_log' = read_log \o Take(inbound, n)
                /\ lpc' = "feed"
                /\ UNCHANGED <<lret, tcp_lock>>
       [] peer = "open" /\ inbound = <<>> ->
            \* Err(WouldBlock): continue, which drops the guard
            /\ tcp_lock' = "none"
            /\ lpc' = "loop"
            /\ UNCHANGED <<inbound, tcp_data, read_log, lret>>
       [] peer = "closed" /\ inbound = <<>> ->
            \* end of stream: Ok(0)
            /\ tcp_data' = <<>>
            /\ lpc' = "feed"
            /\ UNCHANGED <<inbound, read_log, lret, tcp_lock>>
  /\ UNCHANGED <<svars, gvars, state_lock, peer, sent, wire, shorts, telnet_data,
                 fed_log, reply_len, avars>>

\* self.state.lock().expect(..).write(tcp_data)? : the guard of the State
\* is a temporary of the if-let, held until the block is left
ListenFeed ==
  /\ lpc = "feed"
  /\ state_lock = "none"
  /\ LET r == write(Self, tcp_data)
     IN  /\ output_buffer' = r.st.output_buffer
         /\ mode' = r.st.mode
         /\ is_echoing' = r.st.is_echoing
         /\ fed_log' = fed_log \o tcp_data
         /\ IF r.err # "none"
            THEN /\ lret' = r.err
                 /\ lpc' = "returned"
                 /\ tcp_lock' = "none"
                 /\ UNCHANGED <<state_lock, telnet_data, reply_len>>
            ELSE IF r.out = <<>>
            THEN /\ lpc' = "loop"
                 /\ tcp_lock' = "none"
                 /\ reply_len' = IF tcp_data = <<>> THEN reply_len
                                 ELSE Append(reply_len, 0)
                 /\ UNCHANGED <<state_lock, telnet_data, lret>>
            ELSE /\ telnet_data' = r.out
                 /\ state_lock' = "listener"
                 /\ reply_len' = Append(reply_len, Len(r.out))
                 /\ lpc' = "write_all"
                 /\ UNCHANGED <<tcp_lock, lret>>
  /\ UNCHANGED <<handle_ansi_escape_sequences, gvars, netvars, tcp_data, read_log, avars>>

\* ListenWrite calling write where the code calls write_all
ListenWrite_once ==
  /\ lpc = "write_all"
  /\ \/ \E n \in Accepts(telnet_data) :
          /\ wire' = wire \o Tagged(Take(telnet_data, n), "listener", Len(reply_len))
          /\ telnet_data' = Drop(telnet_data, n)
          /\ shorts' = IF n < Len(telnet_data) THEN shorts + 1 ELSE shorts
          /\ lpc' = "flush"
          /\ UNCHANGED <<lret, lockvars>>
     \/ \E e \in WriteErrors :
          /\ lret' = e
          /\ lpc' = "returned"
          /\ state_lock' = "none"
          /\ tcp_lock' = "none"
          /\ UNCHANGED <<wire, telnet_data, shorts>>
  /\ UNCHANGED <<svars, gvars, peer, inbound, sent, tcp_data, read_log, fed_log,
                 reply_len, avars>>

\* tcp_stream.write_all(&telnet_data)? : one write syscall of its loop
ListenWrite ==
  /\ lpc = "write_all"
  /\ \/ \E n \in Accepts(telnet_data) :
          /\ wire' = wire \o Tagged(Take(telnet_data, n), "listener", Len(reply_len))
          /\ telnet_data' = Drop(telnet_data, n)
          /\ shorts' = IF n < Len(telnet_data) THEN shorts + 1 ELSE shorts
          /\ lpc' = IF n < Len(telnet_data) THEN "write_all" ELSE "flush"
          /\ UNCHANGED <<lret, lockvars>>
     \/ \E e \in WriteErrors :
          /\ lret' = e
          /\ lpc' = "returned"
          /\ state_lock' = "none"
          /\ tcp_lock' = "none"
          /\ UNCHANGED <<wire, telnet_data, shorts>>
  /\ UNCHANGED <<svars, gvars, peer, inbound, sent, tcp_data, read_log, fed_log,
                 reply_len, avars>>

\* tcp_stream.flush()? and the end of the iteration: the guard of the State
\* is dropped, then the guard of the socket
ListenFlush ==
  /\ lpc = "flush"
  /\ lpc' = "loop"
  /\ telnet_data' = <<>>
  /\ state_lock' = "none"
  /\ tcp_lock' = "none"
  /\ UNCHANGED <<svars, gvars, netvars, tcp_data, lret, read_log, fed_log, reply_len,
                 avars>>

Listener == ListenTryLock \/ ListenRead \/ ListenFeed \/ ListenWrite \/ ListenFlush

\* ---- handle_connection: read_line_waiting, write_all, flush -------------

\* Session::read: self.state.lock()
AppLockState ==
  /\ apc = "read"
  /\ state_lock = "none"
  /\ state_lock' = "app"
  /\ apc' = "reading"
  /\ UNCHANGED <<svars, gvars, tcp_lock, netvars, lvars, line, answer, awrites>>

\* AppRead leaving the loop of read_line_waiting after any byte
AppRead_breaks_on_any ==
  /\ apc = "reading"
  /\ state_lock' = "none"
  /\ LET r == read(Self, 1)
     IN  /\ output_buffer' = r.st.output_buffer
         /\ IF r.n = 1
            THEN LET next == r.copied[1]
                 IN  /\ line' = Append(line, next)
                     /\ answer' = format_answer(Append(line, next))
                     /\ apc' = "write"
            ELSE /\ apc' = "read"
                 /\ UNCHANGED <<line, answer>>
  /\ UNCHANGED <<mode, is_echoing, handle_ansi_escape_sequences, gvars, tcp_lock,
                 netvars, lvars, awrites>>

\* State::read into the one-byte buf, and the match of read_line_waiting
AppRead ==
  /\ apc = "reading"
  /\ state_lock' = "none"
  /\ LET r == read(Self, 1)
     IN  /\ output_buffer' = r.st.output_buffer
         /\ IF r.n = 1
            THEN LET next == r.copied[1]
                 IN  /\ line' = Append(line, next)
                     /\ IF next = CHAR_LF
                        THEN /\ answer' = format_answer(Append(line, next))
                             /\ apc' = "write"
                        ELSE /\ apc' = "read"
                             /\ UNCHANGED answer
            ELSE /\ apc' = "read"
                 /\ UNCHANGED <<line, answer>>
  /\ UNCHANGED <<mode, is_echoing, handle_ansi_escape_sequences, gvars, tcp_lock,
                 netvars, lvars, awrites>>

\* AppLockTcp going on without the Mutex of the socket
AppLockTcp_no_wait ==
  /\ apc \in {"write", "flush"}
  /\ apc' = IF apc = "write" THEN "writing" ELSE "flushing"
  /\ UNCHANGED <<svars, gvars, lockvars, netvars, lvars, line, answer, awrites>>

\* Session::write and Session::flush: self.tcp_stream.lock()
AppLockTcp ==
  /\ apc \in {"write", "flush"}
  /\ tcp_lock = "none"
  /\ tcp_lock' = "app"
  /\ apc' = IF apc = "write" THEN "writing" ELSE "flushing"
  /\ UNCHANGED <<svars, gvars, state_lock, netvars, lvars, line, answer, awrites>>

\* Session::write under write_all: one write syscall; an error leaves the loop
AppWrite ==
  /\ apc = "writing"
  /\ tcp_lock' = "none"
  /\ \/ \E n \in Accepts(answer) :
          /\ wire' = wire \o Tagged(Take(answer, n), "app", awrites + 1)
          /\ awrites' = awrites + 1
          /\ answer' = Drop(answer, n)
          /\ shorts' = IF n < Len(answer) THEN shorts + 1 ELSE shorts
          /\ apc' = IF n < Len(answer) THEN "write" ELSE "flush"
     \/ \E e \in WriteErrors :
          /\ apc' = "join"
          /\ UNCHANGED <<wire, awrites, answer, shorts>>
  /\ UNCHANGED <<svars, gvars, state_lock, peer, inbound, sent, lvars, line>>

\* Session::flush: TcpStream::flush does nothing; back to read_line_waiting
AppFlush ==
  /\ apc = "flushing"
  /\ tcp_lock' = "none"
  /\ apc' = "read"
  /\ line' = <<>>
  /\ UNCHANGED <<svars, gvars, state_lock, netvars, lvars, answer, awrites>>

\* handle.join()
AppJoin ==
  /\ apc = "join"
  /\ lpc = "returned"
  /\ apc' = "exited"
  /\ UNCHANGED <<svars, gvars, lockvars, netvars, lvars, line, answer, awrites>>

App == AppLockState \/ AppRead \/ AppLockTcp \/ AppWrite \/ AppFlush \/ AppJoin

\* ---- the peer -----------------------------------------------------------

PeerSend ==
  /\ peer = "open"
  /\ sent < MaxWire
  /\ \E b \in WireBytes : inbound' = Append(inbound, b)
  /\ sent' = sent + 1
  /\ UNCHANGED <<svars, gvars, lockvars, peer, wire, shorts, lvars, avars>>

PeerClose ==
  /\ peer = "open"
  /\ peer' = "closed"
  /\ UNCHANGED <<svars, gvars, lockvars, inbound, sent, wire, shorts, lvars, avars>>

PeerReset ==
  /\ peer = "open"
  /\ peer' = "reset"
  /\ inbound' = <<>>
  /\ UNCHANGED <<svars, gvars, lockvars, sent, wire, shorts, lvars, avars>>

Peer == PeerSend \/ PeerClose \/ PeerReset

SessNext == Listener \/ App \/ Peer

SessSpec == SessInit /\ [][SessNext]_vars

(***************************************************************************)
(* The line specification: the same Session with a peer that asks for echo *)
(* or not and then types: data, erase controls and LF                      *)
(***************************************************************************)
\* bytes the peer types in all
MaxLine == 3

\* what the peer types: 'm', BS, ERASE_LINE and LF
LineBytes == {109, CHAR_BACK_SPACE, ERASE_LINE, CHAR_LF}

\* IAC DO ECHO
DoEcho == <<IAC, IAC_DO, ECHO>>

\* the peer began with IAC DO ECHO
Negotiated ==
  /\ Len(read_log \o inbound) >= Len(DoEcho)
  /\ Take(read_log \o inbound, Len(DoEcho)) = DoEcho

\* how many bytes the peer has typed
Typed == IF Negotiated THEN sent - Len(DoEcho) ELSE sent

\* the first thing the peer sends is IAC DO ECHO, in one segment
LineNegotiate ==
  /\ sent = 0
  /\ inbound' = DoEcho
  /\ sent' = Len(DoEcho)
  /\ UNCHANGED <<svars, gvars, lockvars, peer, wire, shorts, lvars, avars>>

LineType ==
  /\ Typed < MaxLine
  /\ \E b \in LineBytes : inbound' = Append(inbound, b)
  /\ sent' = sent + 1
  /\ UNCHANGED <<svars, gvars, lockvars, peer, wire, shorts, lvars, avars>>

LinePeer == LineNegotiate \/ LineType

LineNext == Listener \/ App \/ LinePeer

LineSpec == SessInit /\ [][LineNext]_vars

(***************************************************************************)
(* The feed specification: the same Session with a peer that sends whole   *)
(* segments, some of them ending in a command the decoder refuses          *)
(***************************************************************************)
\* bytes the peer sends in all
MaxFeed == 8

\* IAC SE outside a sub-negotiation
BadCommand == <<IAC, IAC_SUBNEGOTIATION_END>>

\* nothing, data, an option request or both, then the refused command
BadSegments ==
  {head \o BadCommand : head \in {<<>>, <<109>>, DoEcho, DoEcho \o <<109>>}}

\* an option request, and a line of data
GoodSegments == {DoEcho, <<109, CHAR_LF>>}

Segments == BadSegments \cup GoodSegments

\* a segment arrives
FeedSend ==
  /\ \E seg \in Segments :
       /\ sent + Len(seg) <= MaxFeed
       /\ inbound' = inbound \o seg
       /\ sent' = sent + Len(seg)
  /\ UNCHANGED <<svars, gvars, lockvars, peer, wire, shorts, lvars, avars>>

FeedNext == Listener \/ App \/ FeedSend

FeedSpec == SessInit /\ [][FeedNext]_vars

\* the OS keeps scheduling both threads, and a thread that finds a Mutex
\* free again and again gets it in the end; the peer owes nothing
FairSessSpec == SessSpec /\ SF_vars(Listener) /\ SF_vars(App)

(***************************************************************************)
(* Claims about the decoder                                                *)
(***************************************************************************)
Called == arg # <<>>

\* the byte of the last call
Byte == arg[1]

Contains(buffer, byte) == \E i \in 1..Len(buffer) : buffer[i] = byte

CommandVerbs == {IAC_SUBNEGOTIATION_START, IAC_WILL, IAC_WONT, IAC_DO, IAC_DONT}

OptionModes == {"CommandWill", "CommandWont", "CommandDo", "CommandDont"}

\* C1: for both settings of the ANSI flag, output_buffer never holds a byte
\* 255 (IAC) after any bytes were written to a fresh State.
C1_NoIacInOutput == ~Contains(output_buffer, IAC)

\* C2: with handle_ansi_escape_sequences false, output_buffer never holds a
\* byte 27 (ESC), and a byte consumed in mode AnsiEscapeSequence (body or
\* terminator) leaves output_buffer as it was.
C2_NoCsiInOutput ==
  ~handle_ansi_escape_sequences =>
    /\ ~Contains(output_buffer, CHAR_ESCAPE)
    /\ (Called /\ pre.mode = "AnsiEscapeSequence") =>
          output_buffer = pre.output_buffer

\* C2 happens: with the flag off and echo on or off, a terminator ends a
\* sequence that was entered with data in the buffer.
C2_Witness ==
  /\ ~handle_ansi_escape_sequences
  /\ pre.mode = "AnsiEscapeSequence"
  /\ Byte \in CHARS_ESCAPE_SEQUENCE_END
  /\ tok.bytes[1] = CHAR_ESCAPE
  /\ Len(tok.bytes) > 2
  /\ output_buffer # <<>>

\* C3: State.write fails exactly when a byte is consumed in mode Command
\* that is none of SB, WILL, WONT, DO, DONT; the error is InvalidInput; a
\* byte consumed in any other mode is accepted.
C3_OnlyUnknownCommandFails ==
  Called =>
    /\ ret.err \in {"none", "InvalidInput"}
    /\ (ret.err = "InvalidInput") <=>
          (pre.mode = "Command" /\ Byte \notin CommandVerbs)

\* C3 happens: IAC SE outside a sub-negotiation is refused.
C3_Witness ==
  /\ pre.mode = "Command"
  /\ Byte = IAC_SUBNEGOTIATION_END
  /\ ret.err = "InvalidInput"
  /\ mode = "Command"

C5_OptionReply ==
  \A opt \in Bytes :
    /\ tok.bytes = <<IAC, IAC_DO, opt>> =>
          /\ tok.reply = IF opt = ECHO THEN <<255, 251, 1>> ELSE <<255, 252, opt>>
          /\ is_echoing = IF opt = ECHO THEN TRUE ELSE tok.echo0
          /\ output_buffer = tok.buf0
          /\ mode = "Idle"
    /\ tok.bytes = <<IAC, IAC_DONT, opt>> =>
          /\ tok.reply = <<255, 252, opt>>
          /\ is_echoing = IF opt = ECHO THEN FALSE ELSE tok.echo0
          /\ output_buffer = tok.buf0
          /\ mode = "Idle"

\* C5 happens: DONT ECHO switches a running echo off, with data buffered.
C5_Witness ==
  /\ tok.bytes = <<IAC, IAC_DONT, ECHO>>
  /\ tok.echo0
  /\ ~is_echoing
  /\ output_buffer # <<>>

(***************************************************************************)
(* Claims about whole State.write calls and the State.read calls after     *)
(***************************************************************************)
EditingControls == {CHAR_BACK_SPACE, CHAR_DELETE, CHAR_ERASE, ERASE_LINE}

EraseChars == {CHAR_BACK_SPACE, CHAR_DELETE, CHAR_ERASE}

\* no IAC, no ESC, no editing control
IsPayload(seq) ==
  \A i \in 1..Len(seq) : seq[i] \notin ({IAC, CHAR_ESCAPE} \cup EditingControls)

\* the State before the last call was a fresh one
WasFresh == pre = new(handle_ansi_escape_sequences)

\* what the last State.write call left in output_buffer: the bytes read
\* since, then the bytes still there
Left == drained \o output_buffer

\* C12: a slice without IAC, ESC and editing controls written to a fresh
\* State is what the State.read calls after it copy out, in order, nothing
\* lost or duplicated, whatever the sizes of their buffers; when they have
\* copied as many bytes as were written, output_buffer is empty.
C12_PayloadRoundTrip ==
  (Called /\ WasFresh /\ IsPayload(arg)) =>
    /\ Left = arg
    /\ Len(drained) = Len(arg) => (drained = arg /\ output_buffer = <<>>)

\* C12 happens: three different bytes were written and then drained by
\* more than one read, the last with a one-byte buffer.
C12_Witness ==
  /\ WasFresh
  /\ arg = <<CHAR_CR, 109, CHAR_LF>>
  /\ drained = arg
  /\ output_buffer = <<>>
  /\ dst = 1

\* C13: a slice of plain data written in mode Idle is answered with nothing
\* when echo is off and with exactly the slice when echo is on; either way
\* the slice is appended to output_buffer.
C13_EchoMirrorsData ==
  (Called /\ pre.mode = "Idle" /\ IsPayload(arg)) =>
    /\ ret.err = "none"
    /\ ret.out = IF pre.is_echoing THEN arg ELSE <<>>
    /\ Left = pre.output_buffer \o arg

\* C13 happens: with echo on and data buffered, a three-byte slice has
\* just been written.
C13_Witness ==
  /\ pre.is_echoing
  /\ pre.output_buffer # <<>>
  /\ Len(arg) = 3
  /\ IsPayload(arg)
  /\ ret.out = arg
  /\ dst = 0
  /\ output_buffer = pre.output_buffer \o arg

\* k times BS SPACE BS
Rubouts(k) ==
  [i \in 1..(3 * k) |-> <<CHAR_BACK_SPACE, CHAR_SPACE, CHAR_BACK_SPACE>>[((i - 1) % 3) + 1]]

\* C14: in Idle each byte 8, 127 or 247 takes exactly the last byte off
\* output_buffer, or leaves an empty output_buffer empty without an error;
\* each is answered [8, 32, 8] when echo is on and with nothing otherwise;
\* mode stays Idle and is_echoing is as before.
C14_EraseCharacter ==
  (Called /\ pre.mode = "Idle" /\ \A i \in 1..Len(arg) : arg[i] \in EraseChars) =>
    LET n == Len(pre.output_buffer)
        k == Min(n, Len(arg))
    IN  /\ ret.err = "none"
        /\ Left = SubSeq(pre.output_buffer, 1, n - k)
        /\ ret.out = IF pre.is_echoing THEN Rubouts(Len(arg)) ELSE <<>>
        /\ mode = "Idle"
        /\ is_echoing = pre.is_echoing

\* C14 happens: with echo on, DEL took the LF off a buffer holding CR LF.
C14_Witness ==
  /\ arg = <<CHAR_DELETE>>
  /\ pre.output_buffer = <<CHAR_CR, CHAR_LF>>
  /\ pre.is_echoing
  /\ output_buffer = <<CHAR_CR>>
  /\ ret.out = <<8, 32, 8>>

\* where in the buffer a CR LF ends
CrLfEnds(buffer) ==
  {i \in 2..Len(buffer) : buffer[i - 1] = CHAR_CR /\ buffer[i] = CHAR_LF}

Max(S) == CHOOSE x \in S : \A y \in S : y <= x

Least(S) == CHOOSE x \in S : \A y \in S : x <= y

EndsWithCrLf(buffer) == Len(buffer) \in CrLfEnds(buffer)

\* C15: ERASE_LINE leaves the longest prefix of the buffer that ends with
\* CR LF, byte for byte as it was, when the buffer holds a CR LF, and an
\* empty buffer when it holds none.
C15_EraseLineResult ==
  (Called /\ arg = <<ERASE_LINE>>) =>
    output_buffer =
      IF CrLfEnds(pre.output_buffer) = {} THEN <<>>
      ELSE Take(pre.output_buffer, Max(CrLfEnds(pre.output_buffer)))

\* C15 happens: a byte after the CR LF of a four-byte buffer was erased and
\* the three bytes before it were kept.
C15_Witness ==
  /\ arg = <<ERASE_LINE>>
  /\ Len(pre.output_buffer) = 4
  /\ CrLfEnds(pre.output_buffer) = {3}
  /\ output_buffer = Take(pre.output_buffer, 3)

\* C16: ERASE_LINE applied to an empty buffer or to one ending in CR LF
\* changes nothing, and once ERASE_LINE has been applied, applying it again
\* (once or twice more) changes nothing.
C16_EraseLineIdempotent ==
  /\ [](Called /\ (pre.output_buffer = <<>> \/ EndsWithCrLf(pre.output_buffer))
          => output_buffer = pre.output_buffer)
  /\ [][Called => output_buffer' = output_buffer]_vars

\* C16 happens: two ERASE_LINE in one slice were applied to a four-byte
\* buffer with a byte after its CR LF.
C16_Witness ==
  /\ arg = <<ERASE_LINE, ERASE_LINE>>
  /\ Len(pre.output_buffer) = 4
  /\ EndsWithCrLf(output_buffer)
  /\ output_buffer # pre.output_buffer

\* ESC, bytes outside the terminator set, one terminator
IsCsi(seq) ==
  /\ Len(seq) >= 2
  /\ seq[1] = CHAR_ESCAPE
  /\ seq[Len(seq)] \in CHARS_ESCAPE_SEQUENCE_END
  /\ \A i \in 2..(Len(seq) - 1) : seq[i] \notin CHARS_ESCAPE_SEQUENCE_END

\* C17: with handle_ansi_escape_sequences true a CSI sequence written in
\* Idle grows output_buffer by exactly its bytes, ESC included, with echo
\* on or off (and ESC is echoed when echo is on); mode ends Idle.
C17_CsiRetained ==
  (Called /\ handle_ansi_escape_sequences /\ pre.mode = "Idle" /\ IsCsi(arg)) =>
    /\ Left = pre.output_buffer \o arg
    /\ pre.is_echoing => (ret.out # <<>> /\ ret.out[1] = CHAR_ESCAPE)
    /\ mode = "Idle"

CountOf(seq, byte) == Cardinality({i \in DOMAIN seq : seq[i] = byte})

\* C18: with handle_ansi_escape_sequences false, a byte consumed in mode
\* AnsiEscapeSequence is answered [7] when it is a terminator and with
\* nothing otherwise; the reply to a whole ignored CSI sequence fed from
\* Idle holds exactly one BEL, at its end, and is exactly [7] when echo is
\* off; output_buffer is as before the ESC and mode ends Idle.
C18_IgnoredCsiBel ==
  ~handle_ansi_escape_sequences =>
    /\ (Called /\ pre.mode = "AnsiEscapeSequence") =>
          ret.out = IF Byte \in CHARS_ESCAPE_SEQUENCE_END THEN <<BEL>> ELSE <<>>
    /\ IsCsi(tok.bytes) =>
          /\ CountOf(tok.reply, BEL) = 1
          /\ tok.reply[Len(tok.reply)] = BEL
          /\ ~tok.echo0 => tok.reply = <<7>>
          /\ output_buffer = tok.buf0
          /\ mode = "Idle"

\* C18 happens: with echo off and data buffered, ESC, a body byte and a
\* terminator were answered [7].
C18_Witness ==
  /\ ~handle_ansi_escape_sequences
  /\ IsCsi(tok.bytes)
  /\ Len(tok.bytes) = 3
  /\ ~tok.echo0
  /\ tok.reply = <<7>>
  /\ tok.buf0 # <<>>
  /\ output_buffer = tok.buf0

IsSubNegotiation(seq) ==
  /\ Len(seq) >= 2
  /\ seq[1] = IAC
  /\ seq[2] = IAC_SUBNEGOTIATION_START

\* where after IAC SB a byte 240 stands
SeAt(seq) == {i \in 3..Len(seq) : seq[i] = IAC_SUBNEGOTIATION_END}

\* the bytes after the first 240 of a sub-negotiation
DataAfter(seq) == IF SeAt(seq) = {} THEN <<>> ELSE Drop(seq, Least(SeAt(seq)))

\* IAC SB 24 0 'X' IAC SE 'A'
SubNegotiationExample == <<255, 250, 24, 0, 88, 255, 240, 65>>

\* C19: of a slice that opens a sub-negotiation in Idle, every byte up to
\* and including the first 240 (a byte 255 too) is discarded: no reply, and
\* output_buffer and is_echoing as before; without a 240 mode stays
\* SubNegotiation, with one mode is Idle and the plain data after it is
\* appended (and echoed) as usual; [255, 250, 24, 0, 'X', 255, 240, 'A']
\* written to a fresh State gives no reply and output_buffer = ['A'].
C19_SubNegotiationDiscarded ==
  /\ (Called /\ pre.mode = "Idle" /\ IsSubNegotiation(arg) /\ IsPayload(DataAfter(arg))) =>
        /\ ret.err = "none"
        /\ ret.out = IF pre.is_echoing THEN DataAfter(arg) ELSE <<>>
        /\ Left = pre.output_buffer \o DataAfter(arg)
        /\ is_echoing = pre.is_echoing
        /\ mode = IF SeAt(arg) = {} THEN "SubNegotiation" ELSE "Idle"
  /\ (WasFresh /\ arg = SubNegotiationExample) =>
        /\ ret.out = <<>>
        /\ Left = <<65>>

\* C19 happens: the example was written to a fresh State.
C19_Witness ==
  /\ WasFresh
  /\ arg = SubNegotiationExample
  /\ output_buffer = <<65>>
  /\ mode = "Idle"

(***************************************************************************)
(* Claims about the Session                                                *)
(***************************************************************************)
\* how many bytes the given call has put on the wire
WrittenBy(by, call) ==
  Cardinality({i \in DOMAIN wire : wire[i].by = by /\ wire[i].call = call})

SameCall(i, j) == wire[i].by = wire[j].by /\ wire[i].call = wire[j].call

ListenerBlocked == lpc = "feed" /\ state_lock # "none"

AppBlocked ==
  \/ apc = "read" /\ state_lock # "none"
  \/ apc \in {"write", "flush"} /\ tcp_lock # "none"

\* C6: the listener feeds State.write the chunks in the order it read them,
\* and whenever it is about to read or feed a chunk, the reply to every
\* chunk fed before is on the wire in full, whatever the application does.
C6_InOrderReplyFirst ==
  /\ read_log = fed_log \o (IF lpc = "feed" THEN tcp_data ELSE <<>>)
  /\ lpc \in {"loop", "read", "feed"} =>
       \A k \in 1..Len(reply_len) : WrittenBy("listener", k) = reply_len[k]

\* C6 happens: a chunk has been read after a three-byte reply that took two
\* write syscalls, while the application is inside Session.read.
C6_Witness ==
  /\ lpc = "feed"
  /\ tcp_data # <<>>
  /\ reply_len # <<>>
  /\ reply_len[Len(reply_len)] = 3
  /\ shorts = 1
  /\ apc = "reading"

\* C7: once a read has reported end of stream (Ok(0)) the listener
\* eventually returns.
C7_ListenerReturnsOnEof ==
  (peer = "closed" /\ lpc = "feed" /\ tcp_data = <<>>) ~> (lpc = "returned")

\* C8: once the listener has returned its error, the application loop
\* eventually exits (it reaches handle.join()).
C8_AppExitsAfterListenerError ==
  (lpc = "returned") ~> (apc \in {"join", "exited"})

\* C9: the listener holds the State mutex only while it holds the socket
\* mutex, the application never holds both, and never are the listener and
\* the application both waiting for a mutex (or the application waiting for
\* one after the listener has returned).
C9_NoDeadlock ==
  /\ state_lock = "listener" => tcp_lock = "listener"
  /\ lpc \in {"read", "feed", "write_all", "flush"} => tcp_lock = "listener"
  /\ ~(state_lock = "app" /\ tcp_lock = "app")
  /\ ~((ListenerBlocked \/ lpc = "returned") /\ AppBlocked)

\* C9 happens: the listener, holding the socket, waits for the State mutex
\* that the application holds.
C9_Witness ==
  /\ ListenerBlocked
  /\ state_lock = "app"
  /\ tcp_lock = "listener"
  /\ tcp_data # <<>>

\* C10: on the wire the bytes of one listener reply and the bytes of one
\* Session.write call are each one contiguous block.
C10_WritesContiguous ==
  \A i \in 1..(Len(wire) - 1) :
    ~SameCall(i, i + 1) => \A j \in (i + 2)..Len(wire) : ~SameCall(i, j)

\* C10 happens: a three-byte reply written by two syscalls and an answer of
\* the application written by one are both on the wire.
C10_Witness ==
  /\ WrittenBy("listener", Len(reply_len)) = 3
  /\ shorts = 1
  /\ awrites = 1
  /\ WrittenBy("app", 1) > 3
  /\ lpc = "flush"

(***************************************************************************)
(* Claims about the line reader and about the errors of the listener       *)
(***************************************************************************)
\* read_line_waiting has returned Ok(line): the application is writing or
\* flushing its answer to that line
LineReturned == apc \in {"write", "writing", "flush", "flushing"}

\* C11: the line read_line_waiting returns is not empty, ends with LF and
\* has no LF before its end (nor has the line it is still collecting),
\* while the listener appends to output_buffer and erases from it.
C11_LineEndsWithLf ==
  /\ \A i \in 1..(Len(line) - 1) : line[i] # CHAR_LF
  /\ LineReturned =>
        /\ line # <<>>
        /\ line[Len(line)] = CHAR_LF

\* C11 happens: the listener was fed 'm', an erase control and LF, and the
\* line returned is the LF alone.
C11_Witness ==
  /\ apc = "write"
  /\ Contains(fed_log, 109)
  /\ Contains(fed_log, CHAR_BACK_SPACE)
  /\ line = <<CHAR_LF>>
  /\ answer = format_answer(line)

\* C20: listen never returns with WouldBlock (a read, write or flush that
\* would block is retried); when it has returned, it is with a socket
\* error other than WouldBlock or with the error of the decoder.
C20_WouldBlockNotFatal ==
  /\ lret # "WouldBlock"
  /\ lpc = "returned" => lret \in {"ConnectionReset", "BrokenPipe", "InvalidInput"}

\* the byte 'm' wherever it stands in the bytes
DataOf(bytes) == SelectSeq(bytes, LAMBDA b : b = 109)

\* C21: when the one slice fed to State.write so far ends in a refused
\* command, the listener has returned InvalidInput and has put nothing on
\* the socket, not even the reply to an option request earlier in the
\* slice; what the earlier bytes did stands: their data is in
\* output_buffer (or read from it by the application), echo is on exactly
\* when they asked for it, and mode is left at Command.
C21_NoReplyOnError ==
  (fed_log \in BadSegments /\ tcp_data = fed_log) =>
    /\ lpc = "returned"
    /\ lret = "InvalidInput"
    /\ \A i \in DOMAIN wire : wire[i].by # "listener"
    /\ reply_len = <<>>
    /\ line \o output_buffer = DataOf(fed_log)
    /\ is_echoing = (Len(fed_log) > Len(DoEcho) /\ Take(fed_log, Len(DoEcho)) = DoEcho)
    /\ mode = "Command"

\* C21 happens: IAC DO ECHO 'm' IAC SE was fed as one slice; echo is on,
\* the application has read the 'm', and the socket has seen no byte.
C21_Witness ==
  /\ fed_log = DoEcho \o <<109>> \o BadCommand
  /\ tcp_data = fed_log
  /\ lret = "InvalidInput"
  /\ is_echoing
  /\ line = <<109>>
  /\ output_buffer = <<>>
  /\ wire = <<>>

\* one or more data bytes, one or more erase controls, LF
IsEditedLine(bytes) ==
  \E d \in 1..(Len(bytes) - 2) :
    /\ \A i \in 1..d : bytes[i] \notin ({IAC, CHAR_ESCAPE, CHAR_LF} \cup EditingControls)
    /\ \A i \in (d + 1)..(Len(bytes) - 1) : bytes[i] \in EditingControls
    /\ bytes[Len(bytes)] = CHAR_LF

\* what the peer typed of the bytes fed so far
TypedFed == IF Negotiated THEN Drop(fed_log, Len(DoEcho)) ELSE fed_log

\* C22: when the peer typed data, then erase controls, then LF, the first
\* line read_line_waiting returns is what State.read finds after the whole
\* input was written to a fresh State: a byte the application read early
\* is erased all the same.
C22_EraseHonoured ==
  (LineReturned /\ awrites = 0 /\ IsEditedLine(TypedFed)) =>
    line = write(new(FALSE), fed_log).st.output_buffer

====
